---- MODULE Spec2Model ----
(***************************************************************************)
(* Model of src/src/osmdata-sc.cpp: the three flatteners get_osm_nodes,    *)
(* get_osm_ways, get_osm_relations, the edge-id generator random_id and    *)
(* the assembler rcpp_osmdata_sc.                                          *)
(*                                                                         *)
(* One behaviour is one call of one entry point (fn).  A call is split     *)
(* into its counting pre-pass, one step per iteration of the fill loop     *)
(* (the loop body starts with the cancellation poll) and the final         *)
(* assignment of the output tables.  The host may raise its interrupt      *)
(* signal between any two steps.                                           *)
(*                                                                         *)
(* Strings are sequences of one-character strings; "" is << >>.            *)
(* An Rcpp matrix is its dimension plus the column-major vector behind it. *)
(***************************************************************************)
EXTENDS Integers, Sequences, FiniteSets, TLC

(* ------------------------------ bounds -------------------------------- *)
MaxNodes == 2
MaxWays == 2
MaxWayNodes == 3
MaxRels == 2
MaxMembers == 2
MaxResolved == 2
MaxTags == 2
MaxXmlEdges == 2
RngPeriod == 3
URes == 1024

(* ------------------------- program constants -------------------------- *)
PollEvery == 1000
length_ids == 10

(* ------------------------------ strings ------------------------------- *)
Digits == <<"0", "1", "2", "3", "4", "5", "6", "7", "8", "9">>

RECURSIVE NatStr(_)
NatStr(n) ==
    IF n < 10 THEN <<Digits[n + 1]>>
    ELSE NatStr(n \div 10) \o <<Digits[(n % 10) + 1]>>

to_string(n) ==
    IF n < 0 THEN <<"-">> \o NatStr(0 - n) ELSE NatStr(n)

(* ------------------------- Rcpp containers ---------------------------- *)
Matrix(nr, nc, fill) ==
    [nrow |-> nr, ncol |-> nc, data |-> [k \in 1..(nr * nc) |-> fill]]

EmptyMat == Matrix(0, 0, <<>>)

Offset(m, r, c) == r + m.nrow * c

InVector(m, r, c) == Offset(m, r, c) < Len(m.data)

MatSet(m, r, c, v) ==
    IF InVector(m, r, c)
    THEN [m EXCEPT !.data[Offset(m, r, c) + 1] = v]
    ELSE m

MatCol(m, c) == [r \in 1..m.nrow |-> m.data[m.nrow * c + r]]

DataFrame(names, cols) == [names |-> names, cols |-> cols]

EmptyDF == DataFrame(<<>>, <<>>)

NRow(df) == IF df.cols = <<>> THEN 0 ELSE Len(df.cols[1])

(* ------------------------------ inputs -------------------------------- *)
TagList == << <<<<"k", "1">>, <<"v", "1">> >>, <<<<"k", "2">>, <<"v", "2">> >>,
              <<<<"k", "3">>, <<"v", "3">> >>, <<<<"k", "4">>, <<"v">> >> >>

TagSeqs == {SubSeq(TagList, 1, n) : n \in 0..MaxTags}

\* Ways and relations carry either no tag or MaxTags tags.
FewTagSeqs == {<<>>, SubSeq(TagList, 1, MaxTags)}

Coords == {<<10, 20>>, <<-30, 40>>}

NodeIdAt(p) == p - 2

NodeChoices == {[lon |-> c[1], lat |-> c[2], key_val |-> kv] :
                    c \in Coords, kv \in TagSeqs}

SmallNodes ==
    UNION {{[p \in 1..n |-> [id |-> NodeIdAt(p), lon |-> f[p].lon,
                              lat |-> f[p].lat, key_val |-> f[p].key_val]] :
                f \in [1..n -> NodeChoices]} : n \in 0..MaxNodes}

LongNodes(n) ==
    [p \in 1..n |-> [id |-> NodeIdAt(p), lon |-> 10, lat |-> 20,
                     key_val |-> <<>>]]

NodesInputs == SmallNodes \cup {LongNodes(PollEvery + 1)}

NodeRefList == <<1, 2, -3, 1, 4, 5>>

WayIdAt(p) == 10 * p - 15

WayChoices == {[nodes |-> SubSeq(NodeRefList, 1, n), key_val |-> kv] :
                   n \in 0..MaxWayNodes, kv \in FewTagSeqs}

WaysInputs ==
    UNION {{[p \in 1..n |-> [id |-> WayIdAt(p), nodes |-> f[p].nodes,
                              key_val |-> f[p].key_val]] :
                f \in [1..n -> WayChoices]} : n \in 0..MaxWays}

MemberList == << <<21, <<"o">> >>, <<-22, <<"i">> >>, <<23, <<>> >>,
                 <<24, <<"o">> >> >>

\* What the tracer may resolve a relation's members to.
ResolvedList == << <<-22, <<"i">> >>, <<31, <<"o">> >>, <<21, <<>> >>,
                   <<32, <<"i">> >> >>

RelIdAt(p) == 7 * p - 8

RelChoices == {[ways |-> SubSeq(MemberList, 1, n), key_val |-> kv] :
                   n \in 0..MaxMembers, kv \in FewTagSeqs}

RelsInputs ==
    UNION {{[p \in 1..n |-> [id |-> RelIdAt(p), ways |-> f[p].ways,
                              key_val |-> f[p].key_val]] :
                f \in [1..n -> RelChoices]} : n \in 0..MaxRels}

(* ----------------------- host random source --------------------------- *)
USamples == {1, URes - 1}

Seeds == [1..RngPeriod -> USamples]

unif_rand(r) == r[1]

rng_next(r) == Tail(r) \o <<r[1]>>

RECURSIVE rng_skip(_, _)
rng_skip(r, n) == IF n = 0 THEN r ELSE rng_skip(rng_next(r), n - 1)

(* ------------------------------ random_id ----------------------------- *)
charset ==
    <<"0", "1", "2", "3", "4", "5", "6", "7", "8", "9",
      "A", "B", "C", "D", "E", "F", "G", "H", "I", "J", "K", "L", "M",
      "N", "O", "P", "Q", "R", "S", "T", "U", "V", "W", "X", "Y", "Z",
      "a", "b", "c", "d", "e", "f", "g", "h", "i", "j", "k", "l", "m",
      "n", "o", "p", "q", "r", "s", "t", "u", "v", "w", "x", "y", "z",
      "NUL">>

sizeof_charset == Len(charset)

max_index_full == sizeof_charset

max_index == sizeof_charset - 1

\* floor (runif (1) [0] * max_index) for the sample u / URes
randindex(u) == (u * max_index) \div URes

randchar(u) == charset[randindex(u) + 1]

RECURSIVE random_id(_, _)
random_id(len, r) ==
    IF len = 0 THEN <<>>
    ELSE <<randchar(unif_rand(r))>> \o random_id(len - 1, rng_next(r))

(* ------------------------------- state -------------------------------- *)
VARIABLES
    fn, pc, pending, rng,
    nodes, ways, rels, xml,
    itr,
    node_ids, node_mat, kv_mat, edge_mat, object_link_edge_mat, rel_mat, ids,
    i, keyj, count_w, count_k, i_rel_mat, i_kv_mat,
    node_df, kv_df, edge, object_link_edge, rel_df, ret,
    gen, traced, sigInTime, lateEntities

inputs == <<fn, nodes, ways, rels, xml>>
mats == <<node_ids, node_mat, kv_mat, edge_mat, object_link_edge_mat, rel_mat, ids>>
counters == <<i, keyj, count_w, count_k, i_rel_mat, i_kv_mat>>
outs == <<node_df, kv_df, edge, object_link_edge, rel_df, ret>>
hist == <<gen, traced, sigInTime, lateEntities>>
vars == <<inputs, pc, pending, rng, itr, mats, counters, outs, hist>>

(* --------------------------- key-value rows --------------------------- *)
\* The pre-pass sum of key_val.size () over s[lo..hi]; the range is halved
\* so that the evaluation depth stays logarithmic in the number of entities.
RECURSIVE CountKVRange(_, _, _)
CountKVRange(s, lo, hi) ==
    IF lo > hi THEN 0
    ELSE IF lo = hi THEN Len(s[lo].key_val)
    ELSE CountKVRange(s, lo, (lo + hi) \div 2)
         + CountKVRange(s, ((lo + hi) \div 2) + 1, hi)

CountKV(s) == CountKVRange(s, 1, Len(s))

KVRow(m, k, id, kv) ==
    MatSet(MatSet(MatSet(m, k, 0, to_string(id)), k, 1, kv[1]), k, 2, kv[2])

RECURSIVE FillKV(_, _, _, _)
FillKV(m, k, id, kvs) ==
    IF kvs = <<>> THEN m
    ELSE FillKV(KVRow(m, k, id, kvs[1]), k + 1, id, Tail(kvs))

KVFrame(m) ==
    DataFrame(<<"object_", "key", "value">>,
              <<MatCol(m, 0), MatCol(m, 1), MatCol(m, 2)>>)

(* ------------------------ cancellation polling ------------------------ *)
checkUserInterrupt == pending

\* The collection the running flattener traverses.
Entities ==
    CASE fn = "nodes" -> nodes
      [] fn = "ways" -> ways
      [] fn = "rels" -> rels
      [] OTHER -> <<>>

Signal ==
    /\ fn \in {"nodes", "ways", "rels"}
    /\ pc \in {"start", "fill"}
    /\ ~pending
    /\ pending' = TRUE
    /\ sigInTime' = (itr < Len(Entities))
    /\ UNCHANGED <<inputs, pc, rng, itr, mats, counters, outs,
                   gen, traced, lateEntities>>

Interrupted_partial ==
    /\ pc' = "interrupted"
    /\ pending' = FALSE
    /\ kv_df' = KVFrame(kv_mat)
    /\ UNCHANGED <<inputs, rng, itr, mats, counters, node_df, edge,
                   object_link_edge, rel_df, ret, hist>>

Interrupted ==
    /\ pc' = "interrupted"
    /\ pending' = FALSE
    /\ UNCHANGED <<inputs, rng, itr, mats, counters, outs, hist>>

(* ---------------------------- get_osm_nodes --------------------------- *)
NodePollDue_off(idx) == idx % PollEvery = 1

NodePollDue(idx) == idx % PollEvery = 0

NodeRow_swapped(m, k, ni) == MatSet(MatSet(m, k, 0, ni.lat), k, 1, ni.lon)

NodeRow(m, k, ni) == MatSet(MatSet(m, k, 0, ni.lon), k, 1, ni.lat)

get_osm_nodes_prepass ==
    /\ fn = "nodes" /\ pc = "start"
    /\ node_ids' = [k \in 1..Len(nodes) |-> <<>>]
    /\ node_mat' = Matrix(Len(nodes), 2, 0)
    /\ kv_mat' = Matrix(CountKV(nodes), 3, <<>>)
    /\ i' = 0 /\ keyj' = 0
    /\ pc' = "fill"
    /\ UNCHANGED <<inputs, pending, rng, itr, edge_mat, object_link_edge_mat,
                   rel_mat, ids, count_w, count_k, i_rel_mat, i_kv_mat,
                   outs, hist>>

get_osm_nodes_fill ==
    /\ fn = "nodes" /\ pc = "fill" /\ itr < Len(nodes)
    /\ LET ni == nodes[itr + 1] IN
       IF NodePollDue(i) /\ checkUserInterrupt
       THEN Interrupted
       ELSE /\ node_ids' = [node_ids EXCEPT ![i + 1] = to_string(ni.id)]
            /\ node_mat' = NodeRow(node_mat, i, ni)
            /\ i' = i + 1
            /\ kv_mat' = FillKV(kv_mat, keyj, ni.id, ni.key_val)
            /\ keyj' = keyj + Len(ni.key_val)
            /\ itr' = itr + 1
            /\ lateEntities' = (lateEntities \/ pending)
            /\ UNCHANGED <<inputs, pc, pending, rng, edge_mat,
                           object_link_edge_mat, rel_mat, ids, count_w,
                           count_k, i_rel_mat, i_kv_mat, outs, gen, traced,
                           sigInTime>>

get_osm_nodes_return ==
    /\ fn = "nodes" /\ pc = "fill" /\ itr = Len(nodes)
    /\ node_df' = DataFrame(<<"x_", "y_", "vertex_">>,
                            <<MatCol(node_mat, 0), MatCol(node_mat, 1), node_ids>>)
    /\ kv_df' = KVFrame(kv_mat)
    /\ pc' = "done"
    /\ UNCHANGED <<inputs, pending, rng, itr, mats, counters, edge,
                   object_link_edge, rel_df, ret, hist>>

(* ---------------------------- get_osm_ways ---------------------------- *)
RECURSIVE CountEdges(_)
CountEdges(s) ==
    IF s = <<>> THEN 0
    ELSE (IF Len(s[1].nodes) > 0 THEN Len(s[1].nodes) - 1 ELSE 0)
         + CountEdges(Tail(s))

\* One pass of the inner edge loop; s holds edge_mat, object_link_edge_mat,
\* count_w, the random source and the identifiers generated so far.
WayEdgeStep_noinc(s, wid, a, b) ==
    LET idj == random_id(length_ids, s.r) IN
    [em |-> MatSet(MatSet(MatSet(s.em, s.cw, 0, to_string(a)),
                          s.cw, 1, to_string(b)), s.cw, 2, idj),
     om |-> MatSet(MatSet(s.om, s.cw, 0, idj), s.cw, 1, to_string(wid)),
     cw |-> s.cw,
     r  |-> rng_skip(s.r, length_ids),
     g  |-> Append(s.g, idj)]

WayEdgeStep_dedup(s, wid, a, b) ==
    LET idj == random_id(length_ids, s.r) IN
    IF \E k \in 1..Len(s.g) : s.g[k] = idj
    THEN [s EXCEPT !.r = rng_skip(s.r, length_ids), !.g = Append(s.g, idj)]
    ELSE [em |-> MatSet(MatSet(MatSet(s.em, s.cw, 0, to_string(a)),
                               s.cw, 1, to_string(b)), s.cw, 2, idj),
          om |-> MatSet(MatSet(s.om, s.cw, 0, idj), s.cw, 1, to_string(wid)),
          cw |-> s.cw + 1,
          r  |-> rng_skip(s.r, length_ids),
          g  |-> Append(s.g, idj)]

WayEdgeStep_twice(s, wid, a, b) ==
    LET idj == random_id(length_ids, s.r)
        idk == random_id(length_ids, rng_skip(s.r, length_ids)) IN
    [em |-> MatSet(MatSet(MatSet(s.em, s.cw, 0, to_string(a)),
                          s.cw, 1, to_string(b)), s.cw, 2, idj),
     om |-> MatSet(MatSet(s.om, s.cw, 0, idk), s.cw, 1, to_string(wid)),
     cw |-> s.cw + 1,
     r  |-> rng_skip(s.r, 2 * length_ids),
     g  |-> Append(s.g, idj)]

WayEdgeStep(s, wid, a, b) ==
    LET idj == random_id(length_ids, s.r) IN
    [em |-> MatSet(MatSet(MatSet(s.em, s.cw, 0, to_string(a)),
                          s.cw, 1, to_string(b)), s.cw, 2, idj),
     om |-> MatSet(MatSet(s.om, s.cw, 0, idj), s.cw, 1, to_string(wid)),
     cw |-> s.cw + 1,
     r  |-> rng_skip(s.r, length_ids),
     g  |-> Append(s.g, idj)]

RECURSIVE FillEdges(_, _, _, _, _)
FillEdges(s, wid, ns, wj, last) ==
    IF wj = last THEN s
    ELSE FillEdges(WayEdgeStep(s, wid, ns[wj], ns[wj + 1]), wid, ns,
                   wj + 1, last)

get_osm_ways_prepass ==
    /\ fn = "ways" /\ pc = "start"
    /\ edge_mat' = Matrix(CountEdges(ways), 3, <<>>)
    /\ object_link_edge_mat' = Matrix(CountEdges(ways), 2, <<>>)
    /\ kv_mat' = Matrix(CountKV(ways), 3, <<>>)
    /\ count_w' = 0 /\ count_k' = 0
    /\ pc' = "fill"
    /\ UNCHANGED <<inputs, pending, rng, itr, node_ids, node_mat, rel_mat,
                   ids, i, keyj, i_rel_mat, i_kv_mat, outs, hist>>

get_osm_ways_fill ==
    /\ fn = "ways" /\ pc = "fill" /\ itr < Len(ways)
    /\ LET wi == ways[itr + 1]
           first == 1
           last == IF wi.nodes = <<>> THEN Len(wi.nodes) + 1 ELSE Len(wi.nodes)
           s == FillEdges([em |-> edge_mat, om |-> object_link_edge_mat,
                           cw |-> count_w, r |-> rng, g |-> gen],
                          wi.id, wi.nodes, first, last)
       IN
       IF checkUserInterrupt
       THEN Interrupted
       ELSE /\ edge_mat' = s.em
            /\ object_link_edge_mat' = s.om
            /\ count_w' = s.cw
            /\ rng' = s.r
            /\ gen' = s.g
            /\ kv_mat' = FillKV(kv_mat, count_k, wi.id, wi.key_val)
            /\ count_k' = count_k + Len(wi.key_val)
            /\ itr' = itr + 1
            /\ lateEntities' = (lateEntities \/ pending)
            /\ UNCHANGED <<inputs, pc, pending, node_ids, node_mat, rel_mat,
                           ids, i, keyj, i_rel_mat, i_kv_mat, outs, traced,
                           sigInTime>>

get_osm_ways_return ==
    /\ fn = "ways" /\ pc = "fill" /\ itr = Len(ways)
    /\ edge' = DataFrame(<<".vx0", ".vx1", "edge_">>,
                         <<MatCol(edge_mat, 0), MatCol(edge_mat, 1),
                           MatCol(edge_mat, 2)>>)
    /\ object_link_edge' = DataFrame(<<"edge_", "object_">>,
                                     <<MatCol(object_link_edge_mat, 0),
                                       MatCol(object_link_edge_mat, 1)>>)
    /\ kv_df' = KVFrame(kv_mat)
    /\ pc' = "done"
    /\ UNCHANGED <<inputs, pending, rng, itr, mats, counters, node_df,
                   rel_df, ret, hist>>

(* -------------------------- get_osm_relations ------------------------- *)
RECURSIVE CountMemb(_)
CountMemb(s) == IF s = <<>> THEN 0 ELSE Len(s[1].ways) + CountMemb(Tail(s))

\* The relation tracer lives outside this file: any list of (id, role) pairs.
trace_relation(rel) ==
    {rel.ways} \cup {SubSeq(ResolvedList, 1, n) : n \in 0..MaxResolved}

RelRow(m, k, id, r) ==
    MatSet(MatSet(MatSet(m, k, 0, to_string(id)), k, 1, to_string(r[1])),
           k, 2, r[2])

RECURSIVE FillRel(_, _, _, _)
FillRel(m, k, id, rs) ==
    IF rs = <<>> THEN m
    ELSE FillRel(RelRow(m, k, id, rs[1]), k + 1, id, Tail(rs))

\* Some write of rows k .. k+n-1 falls outside the vector behind m.
WritesOutside(m, k, n) ==
    \E r \in k..(k + n - 1) : \E c \in 0..(m.ncol - 1) : ~InVector(m, r, c)

get_osm_relations_prepass ==
    /\ fn = "rels" /\ pc = "start"
    /\ ids' = [k \in 1..Len(rels) |-> 0]
    /\ kv_mat' = Matrix(CountKV(rels), 3, <<>>)
    /\ rel_mat' = Matrix(CountMemb(rels), 3, <<>>)
    /\ i_rel_mat' = 0 /\ i_kv_mat' = 0
    /\ pc' = "fill"
    /\ UNCHANGED <<inputs, pending, rng, itr, node_ids, node_mat, edge_mat,
                   object_link_edge_mat, i, keyj, count_w, count_k, outs, hist>>

get_osm_relations_fill ==
    /\ fn = "rels" /\ pc = "fill" /\ itr < Len(rels)
    /\ \E relation_ways \in trace_relation(rels[itr + 1]) :
       \E fault \in {"error", "ignored"} :
       LET rel == rels[itr + 1] IN
       IF checkUserInterrupt
       THEN Interrupted
       ELSE IF /\ fault = "error"
               /\ \/ WritesOutside(rel_mat, i_rel_mat, Len(relation_ways))
                  \/ WritesOutside(kv_mat, i_kv_mat, Len(rel.key_val))
       THEN /\ pc' = "error"
            /\ traced' = Append(traced, relation_ways)
            /\ UNCHANGED <<inputs, pending, rng, itr, mats, counters, outs,
                           gen, sigInTime, lateEntities>>
       ELSE /\ ids' = [ids EXCEPT ![itr + 1] = rel.id]
            /\ rel_mat' = FillRel(rel_mat, i_rel_mat, rel.id, relation_ways)
            /\ i_rel_mat' = i_rel_mat + Len(relation_ways)
            /\ kv_mat' = FillKV(kv_mat, i_kv_mat, rel.id, rel.key_val)
            /\ i_kv_mat' = i_kv_mat + Len(rel.key_val)
            /\ itr' = itr + 1
            /\ traced' = Append(traced, relation_ways)
            /\ lateEntities' = (lateEntities \/ pending)
            /\ UNCHANGED <<inputs, pc, pending, rng, node_ids, node_mat,
                           edge_mat, object_link_edge_mat, i, keyj, count_w,
                           count_k, outs, gen, sigInTime>>

get_osm_relations_return ==
    /\ fn = "rels" /\ pc = "fill" /\ itr = Len(rels)
    /\ rel_df' = DataFrame(<<"object_", "ref", "role">>,
                           <<MatCol(rel_mat, 0), MatCol(rel_mat, 1),
                             MatCol(rel_mat, 2)>>)
    /\ kv_df' = KVFrame(kv_mat)
    /\ pc' = "done"
    /\ UNCHANGED <<inputs, pending, rng, itr, mats, counters, node_df, edge,
                   object_link_edge, ret, hist>>

(* --------------------------- rcpp_osmdata_sc -------------------------- *)
XmlEdgeIds == {<<"e", "1">>, <<"e", "2">>}

\* What the parser exposes through its column accessors after XmlDataSC (st).
XmlDataSC(es, parsed) ==
    [ok |-> parsed,
     vx |-> <<10, -30>>, vy |-> <<20, 40>>, vert_id |-> <<<<"1">>, <<"2">>>>,
     vx0 |-> [k \in 1..Len(es) |-> <<"1">>],
     vx1 |-> [k \in 1..Len(es) |-> <<"2">>],
     edge |-> es,
     object |-> [k \in 1..Len(es) |-> <<"5">>],
     node_id |-> <<<<"1">>>>, node_key |-> <<<<"k">>>>, node_val |-> <<<<"v">>>>,
     way_id |-> <<<<"5">>>>, way_key |-> <<<<"k">>>>, way_val |-> <<<<"w">>>>,
     rel_id |-> <<>>, rel_key |-> <<>>, rel_val |-> <<>>]

XmlResults ==
    {XmlDataSC(es, parsed) :
        es \in UNION {[1..n -> XmlEdgeIds] : n \in 0..MaxXmlEdges},
        parsed \in BOOLEAN}

retnames == <<"vertex", "edge", "object_link_edge", "obj_node", "obj_way", "obj_rel">>

rcpp_osmdata_sc_ret_obj(x) ==
    LET vertex == DataFrame(<<"x", "y", "vertex_">>, <<x.vx, x.vy, x.vert_id>>)
        edge_ == DataFrame(<<".vx0", ".vx1", "edge_">>, <<x.vx0, x.vx1, x.edge>>)
        oXe == DataFrame(<<"edge_", "object_">>, <<x.object, x.object>>)
        obj_node == DataFrame(<<"object_", "key", "val">>,
                              <<x.node_id, x.node_key, x.node_val>>)
        obj_way == DataFrame(<<"object_", "key", "val">>,
                             <<x.way_id, x.way_key, x.way_val>>)
        obj_rel == DataFrame(<<"object_", "key", "val">>,
                             <<x.rel_id, x.rel_key, x.rel_val>>)
    IN [names |-> retnames,
        cols |-> <<vertex, edge_, oXe, obj_node, obj_way, obj_rel>>]

rcpp_osmdata_sc_ret(x) ==
    LET vertex == DataFrame(<<"x", "y", "vertex_">>, <<x.vx, x.vy, x.vert_id>>)
        edge_ == DataFrame(<<".vx0", ".vx1", "edge_">>, <<x.vx0, x.vx1, x.edge>>)
        oXe == DataFrame(<<"edge_", "object_">>, <<x.edge, x.object>>)
        obj_node == DataFrame(<<"object_", "key", "val">>,
                              <<x.node_id, x.node_key, x.node_val>>)
        obj_way == DataFrame(<<"object_", "key", "val">>,
                             <<x.way_id, x.way_key, x.way_val>>)
        obj_rel == DataFrame(<<"object_", "key", "val">>,
                             <<x.rel_id, x.rel_key, x.rel_val>>)
    IN [names |-> retnames,
        cols |-> <<vertex, edge_, oXe, obj_node, obj_way, obj_rel>>]

rcpp_osmdata_sc ==
    /\ fn = "sc" /\ pc = "start"
    /\ IF xml.ok
       THEN /\ ret' = rcpp_osmdata_sc_ret(xml)
            /\ pc' = "done"
       ELSE /\ ret' = ret
            /\ pc' = "error"
    /\ UNCHANGED <<inputs, pending, rng, itr, mats, counters, node_df, kv_df,
                   edge, object_link_edge, rel_df, hist>>

(* --------------------------- specification ---------------------------- *)
NoXml == XmlDataSC(<<>>, FALSE)

Init ==
    /\ pc = "start" /\ pending = FALSE /\ itr = 0
    /\ \/ fn = "nodes" /\ nodes \in NodesInputs /\ ways = <<>> /\ rels = <<>>
          /\ xml = NoXml /\ rng = [k \in 1..RngPeriod |-> 1]
       \/ fn = "ways" /\ ways \in WaysInputs /\ nodes = <<>> /\ rels = <<>>
          /\ xml = NoXml /\ rng \in Seeds
       \/ fn = "rels" /\ rels \in RelsInputs /\ nodes = <<>> /\ ways = <<>>
          /\ xml = NoXml /\ rng = [k \in 1..RngPeriod |-> 1]
       \/ fn = "sc" /\ xml \in XmlResults /\ nodes = <<>> /\ ways = <<>>
          /\ rels = <<>> /\ rng = [k \in 1..RngPeriod |-> 1]
    /\ node_ids = <<>> /\ node_mat = EmptyMat /\ kv_mat = EmptyMat
    /\ edge_mat = EmptyMat /\ object_link_edge_mat = EmptyMat
    /\ rel_mat = EmptyMat /\ ids = <<>>
    /\ i = 0 /\ keyj = 0 /\ count_w = 0 /\ count_k = 0
    /\ i_rel_mat = 0 /\ i_kv_mat = 0
    /\ node_df = EmptyDF /\ kv_df = EmptyDF /\ edge = EmptyDF
    /\ object_link_edge = EmptyDF /\ rel_df = EmptyDF /\ ret = EmptyDF
    /\ gen = <<>> /\ traced = <<>>
    /\ sigInTime = FALSE /\ lateEntities = FALSE

Next ==
    \/ Signal
    \/ get_osm_nodes_prepass
    \/ get_osm_nodes_fill
    \/ get_osm_nodes_return
    \/ get_osm_ways_prepass
    \/ get_osm_ways_fill
    \/ get_osm_ways_return
    \/ get_osm_relations_prepass
    \/ get_osm_relations_fill
    \/ get_osm_relations_return
    \/ rcpp_osmdata_sc

Spec == Init /\ [][Next]_vars

(* ====================================================================== *)
(*                               PROPERTIES                               *)
(* ====================================================================== *)
Max0(x) == IF x > 0 THEN x ELSE 0

Column(df, name) == df.cols[CHOOSE k \in 1..Len(df.names) : df.names[k] = name]

FilledRows(m, c) == {r \in 1..m.nrow : m.data[m.nrow * c + r] # <<>>}

RowsWith(col, v) == {r \in 1..Len(col) : col[r] = v}

NoOutputs == outs = <<EmptyDF, EmptyDF, EmptyDF, EmptyDF, EmptyDF, EmptyDF>>

\* The edges of all ways, in way order: <<from, to, way id>>.
RECURSIVE AllEdges(_)
AllEdges(ws) ==
    IF ws = <<>> THEN <<>>
    ELSE [j \in 1..Max0(Len(ws[1].nodes) - 1) |->
              <<ws[1].nodes[j], ws[1].nodes[j + 1], ws[1].id>>]
         \o AllEdges(Tail(ws))

(* ------------------------------- C1 ----------------------------------- *)
\* C1 (as stated): when get_osm_ways has returned, every way W with n nodes
\* has exactly n-1 object_link_edge rows whose object_ is W's id, for every
\* n >= 0 (n = 0 included), and the edge table has the sum of max(n-1, 0) rows.
C1_Original ==
    (fn = "ways" /\ pc = "done") =>
        /\ NRow(edge) = Len(AllEdges(ways))
        /\ \A p \in 1..Len(ways) :
              Cardinality(RowsWith(Column(object_link_edge, "object_"),
                                   to_string(ways[p].id)))
                  = Len(ways[p].nodes) - 1

\* C1 (amended): processing a way with n nodes fills exactly max(n-1, 0) new
\* edge rows and max(n-1, 0) new object_link_edge rows, and in the returned
\* tables every way W has exactly max(n-1, 0) linkage rows whose object_ is
\* W's id (zero rows for n = 0 and n = 1).
C1_EdgeRowsPerWay ==
    [][fn = "ways" =>
        /\ (itr' = itr + 1) =>
              LET n == Len(ways[itr + 1].nodes) IN
              /\ Cardinality(FilledRows(edge_mat', 2))
                    - Cardinality(FilledRows(edge_mat, 2)) = Max0(n - 1)
              /\ Cardinality(FilledRows(object_link_edge_mat', 1))
                    - Cardinality(FilledRows(object_link_edge_mat, 1))
                    = Max0(n - 1)
        /\ (pc' = "done") =>
              /\ NRow(edge') = Len(AllEdges(ways))
              /\ \A p \in 1..Len(ways) :
                    Cardinality(RowsWith(Column(object_link_edge', "object_"),
                                         to_string(ways[p].id)))
                        = Max0(Len(ways[p].nodes) - 1)]_vars

C1_Witness ==
    /\ fn = "ways" /\ pc = "done"
    /\ \E p, q \in 1..Len(ways) :
          Len(ways[p].nodes) = 0 /\ Len(ways[q].nodes) >= 3

(* ------------------------------- C2 ----------------------------------- *)
\* The membership rows the tracer-resolved lists call for, relation by relation.
RECURSIVE ExpectedMemb(_)
ExpectedMemb(p) ==
    IF p > Len(traced) THEN <<>>
    ELSE [k \in 1..Len(traced[p]) |->
              <<to_string(rels[p].id), to_string(traced[p][k][1]),
                traced[p][k][2]>>]
         \o ExpectedMemb(p + 1)

\* C2: when get_osm_relations has returned, rel_df has one filled row
\* (relation id, member id, role) per tracer-resolved pair and no other row,
\* whatever lists the tracer returned.
C2_MembershipRows ==
    (fn = "rels" /\ pc = "done") =>
        LET M == ExpectedMemb(1) IN
        /\ NRow(rel_df) = Len(M)
        /\ \A r \in 1..Len(M) :
              /\ r <= NRow(rel_df)
              /\ Column(rel_df, "object_")[r] = M[r][1]
              /\ Column(rel_df, "ref")[r] = M[r][2]
              /\ Column(rel_df, "role")[r] = M[r][3]

(* ------------------------------- C3 ----------------------------------- *)
\* A cancellation poll is the next thing the running flattener does.
PollPoint ==
    /\ pc = "fill" /\ itr < Len(Entities)
    /\ fn = "nodes" => itr % PollEvery = 0

\* C3: a cancellation poll that observes the interrupt signal ends the call
\* in the interrupted condition, and an interrupted call has assigned none
\* of the caller's output tables.
C3_NoPartialResults ==
    [][/\ (PollPoint /\ pending) => pc' = "interrupted"
       /\ (pc' = "interrupted") => NoOutputs']_vars

C3_Witness ==
    /\ pc = "interrupted" /\ itr > 0
    /\ kv_mat.nrow > 0 /\ kv_mat.data[1] # <<>>

(* ------------------------------- C4 ----------------------------------- *)
\* C4 (as stated): once the interrupt is signalled while entities remain to
\* be processed, no further entity is processed and the call never
\* completes normally.
C4_Original ==
    sigInTime => (~lateEntities /\ pc # "done")

\* C4 (amended): a pending interrupt takes effect at the next cancellation
\* poll only.  The way and relation flatteners poll before every entity, so
\* their next step aborts without processing another entity.  The node
\* flattener polls only when the node index is a multiple of 1000; at any
\* other index the next node is still processed and the signal stays pending.
C4_AbortAtNextPoll ==
    [][(pc = "fill" /\ pending /\ itr < Len(Entities)) =>
          IF fn \in {"ways", "rels"} \/ itr % PollEvery = 0
          THEN pc' = "interrupted" /\ itr' = itr
          ELSE pc' = "fill" /\ itr' = itr + 1 /\ pending']_vars

C4_Witness ==
    /\ fn = "nodes" /\ pc = "interrupted"
    /\ itr = PollEvery /\ lateEntities

(* ------------------------------- C5 ----------------------------------- *)
\* C5: when get_osm_nodes has returned, node_df has one row per node in
\* mapping order holding (lon, lat, id), and kv_df holds, node after node and
\* in each node's tag order, one row (id, key, value) per tag, so the rows
\* whose object_ is a node's id number that node's tag count.
C5_NodeRows ==
    (fn = "nodes" /\ pc = "done") =>
        /\ node_df.names = <<"x_", "y_", "vertex_">>
        /\ NRow(node_df) = Len(nodes)
        /\ \A p \in 1..Len(nodes) :
              /\ Column(node_df, "x_")[p] = nodes[p].lon
              /\ Column(node_df, "y_")[p] = nodes[p].lat
              /\ Column(node_df, "vertex_")[p] = to_string(nodes[p].id)
        /\ NRow(kv_df) = CountKVRange(nodes, 1, Len(nodes))
        /\ \A p \in 1..Len(nodes) :
              /\ \A t \in 1..Len(nodes[p].key_val) :
                    LET r == CountKVRange(nodes, 1, p - 1) + t IN
                    /\ Column(kv_df, "object_")[r] = to_string(nodes[p].id)
                    /\ Column(kv_df, "key")[r] = nodes[p].key_val[t][1]
                    /\ Column(kv_df, "value")[r] = nodes[p].key_val[t][2]
              /\ Cardinality(RowsWith(Column(kv_df, "object_"),
                                      to_string(nodes[p].id)))
                    = Len(nodes[p].key_val)

C5_Witness ==
    /\ fn = "nodes" /\ pc = "done"
    /\ \E p, q \in 1..Len(nodes) :
          /\ p < q
          /\ Len(nodes[p].key_val) = 0 /\ Len(nodes[q].key_val) >= 2
          /\ nodes[p].lon # nodes[q].lon

(* ------------------------------- C6 ----------------------------------- *)
Alphabet == {charset[k] : k \in 1..62}

WellFormedId(id) ==
    /\ Len(id) = 10
    /\ \A k \in 1..Len(id) : id[k] \in Alphabet

\* C6: every identifier random_id returns to get_osm_ways, and every edge_
\* cell written with one, is 10 characters from 0-9, A-Z, a-z; and for every
\* sample of the uniform source the character index lies in 0..61.
C6_IdAlphabet ==
    fn = "ways" =>
        /\ \A r \in 1..Len(gen) : WellFormedId(gen[r])
        /\ \A r \in FilledRows(edge_mat, 2) :
              WellFormedId(edge_mat.data[edge_mat.nrow * 2 + r])
        /\ \A r \in FilledRows(object_link_edge_mat, 0) :
              WellFormedId(object_link_edge_mat.data[r])
        /\ (pc = "done") =>
              /\ \A r \in 1..NRow(edge) : WellFormedId(Column(edge, "edge_")[r])
              /\ \A r \in 1..NRow(object_link_edge) :
                    WellFormedId(Column(object_link_edge, "edge_")[r])
        /\ (pc = "start") =>
              \A u \in 1..(URes - 1) : randindex(u) \in 0..61

C6_Witness ==
    /\ fn = "ways" /\ pc = "done" /\ NRow(edge) >= 1
    /\ \E k, l \in 1..10 :
          /\ Column(edge, "edge_")[1][k] = "z"
          /\ Column(edge, "edge_")[1][l] = "0"

(* ------------------------------- C7 ----------------------------------- *)
\* C7: whenever the parser succeeds, rcpp_osmdata_sc returns six tables
\* named vertex, edge, object_link_edge, obj_node, obj_way, obj_rel in this
\* order, and the edge_ columns of edge and object_link_edge are the same
\* column, so the two tables have the same number of rows.
C7_SixTables ==
    fn = "sc" =>
        /\ (xml.ok /\ pc # "start") => pc = "done"
        /\ (pc = "done") =>
              /\ ret.names = <<"vertex", "edge", "object_link_edge",
                               "obj_node", "obj_way", "obj_rel">>
              /\ Len(ret.cols) = 6
              /\ Column(Column(ret, "edge"), "edge_")
                    = Column(Column(ret, "object_link_edge"), "edge_")
              /\ Column(Column(ret, "edge"), "edge_") = xml.edge
              /\ NRow(Column(ret, "edge"))
                    = NRow(Column(ret, "object_link_edge"))

C7_Witness ==
    /\ fn = "sc" /\ pc = "done"
    /\ Len(xml.edge) = 2 /\ xml.edge[1] # xml.edge[2]

(* ------------------------------- C8 ----------------------------------- *)
\* C8: get_osm_ways never rejects, drops or alters an identifier because it
\* equals an earlier one: the r-th identifier generated is the edge_ of the
\* r-th edge row and of the r-th linkage row, the call never fails, and the
\* returned tables carry every generated identifier, duplicates included.
C8_CollisionsAccepted ==
    fn = "ways" =>
        /\ pc # "error"
        /\ count_w = Len(gen)
        /\ \A r \in 1..Len(gen) :
              /\ edge_mat.data[edge_mat.nrow * 2 + r] = gen[r]
              /\ object_link_edge_mat.data[r] = gen[r]
        /\ (pc = "done") =>
              /\ Column(edge, "edge_") = gen
              /\ Column(object_link_edge, "edge_") = gen

C8_Witness ==
    /\ fn = "ways" /\ pc = "done"
    /\ \E r1, r2 \in 1..NRow(edge) :
          /\ r1 # r2
          /\ Column(edge, "edge_")[r1] = Column(edge, "edge_")[r2]
          /\ Cardinality(RowsWith(Column(edge, "edge_"),
                                  Column(object_link_edge, "edge_")[r1])) > 1

(* ------------------------------- C9 ----------------------------------- *)
\* C9: when get_osm_ways has returned, the edge rows are the consecutive
\* node pairs of each way, way after way in mapping order, and row i of
\* object_link_edge carries the edge_ of edge row i (an identifier generated
\* once) and the id of the way that produced it.
C9_EdgeOrder ==
    (fn = "ways" /\ pc = "done") =>
        LET E == AllEdges(ways) IN
        /\ NRow(edge) = Len(E)
        /\ NRow(object_link_edge) = Len(E)
        /\ Len(gen) = Len(E)
        /\ \A r \in 1..Len(E) :
              /\ Column(edge, ".vx0")[r] = to_string(E[r][1])
              /\ Column(edge, ".vx1")[r] = to_string(E[r][2])
              /\ Column(object_link_edge, "object_")[r] = to_string(E[r][3])
              /\ Column(object_link_edge, "edge_")[r] = Column(edge, "edge_")[r]
              /\ Column(edge, "edge_")[r] = gen[r]

C9_Witness ==
    /\ fn = "ways" /\ pc = "done" /\ Len(ways) >= 2
    /\ Len(ways[1].nodes) >= 3 /\ Len(ways[2].nodes) >= 2
    /\ Column(edge, "edge_")[1] # Column(edge, "edge_")[2]

(* ------------------------------- C10 ---------------------------------- *)
\* C10: in all three flatteners no write falls outside its table (every fill
\* index stays within the row count the pre-pass preallocated) and when the
\* fill pass has completed every index equals that row count.
C10_ExactPreallocation ==
    /\ (fn \in {"nodes", "ways", "rels"}) => pc # "error"
    /\ (fn = "nodes" /\ pc # "start") =>
          /\ i <= Len(node_ids) /\ keyj <= kv_mat.nrow
          /\ (pc = "done") => (i = Len(node_ids) /\ keyj = kv_mat.nrow)
    /\ (fn = "ways" /\ pc # "start") =>
          /\ count_w <= edge_mat.nrow /\ count_k <= kv_mat.nrow
          /\ (pc = "done") => (count_w = edge_mat.nrow /\ count_k = kv_mat.nrow)
    /\ (fn = "rels" /\ pc # "start") =>
          /\ i_rel_mat <= rel_mat.nrow /\ i_kv_mat <= kv_mat.nrow
          /\ (pc = "done") =>
                (i_rel_mat = rel_mat.nrow /\ i_kv_mat = kv_mat.nrow)

====
